---- MODULE Spec2Model ----
(***************************************************************************)
(* The ECHO -> facilities synchronisation pipeline of                      *)
(* src/texas_api_mvp/echo_sync.py: parse_facility (field mapper),          *)
(* upsert_facility (INSERT ... ON CONFLICT (npdes_id) DO UPDATE) and the   *)
(* sync_facilities fetch / map / commit loop, over the facilities table of *)
(* src/texas_api_mvp/models.py.                                            *)
(*                                                                         *)
(* Representation.  A Python str is a sequence of one-character strings.   *)
(* A JSON value of an upstream record is [t, s, n]: t is its type tag      *)
(* ("absent" when the key is missing), s its characters when it is a str,  *)
(* n its number when it is an int, or its number of tenths when it is a    *)
(* float.  A Python float is kept in tenths (15 stands for 1.5).  An       *)
(* Optional value is a sequence of length at most one (<<>> is None).      *)
(***************************************************************************)
EXTENDS Integers, Sequences, FiniteSets, TLC

VARIABLES
    store,          \* the committed rows of the facilities table
    session,        \* <<>>, or <<[rows, start]>>: the open AsyncSession's view
                    \* of the table and the start time of its transaction
    pc,             \* where sync_facilities is
    upstream,       \* the pages the ECHO API holds during this run
    offset,         \* sync_facilities' offset
    total_synced,   \* sync_facilities' total_synced
    facilities,     \* the page being processed (line 68)
    idx,            \* position of the for loop of line 76 in facilities
    fetches,        \* the offsets requested by this run, in order
    now,            \* the wall clock
    runs,           \* number of runs of sync_facilities started
    logged,         \* parse errors logged (line 144) for the current page
    upserted,       \* upsert_facility calls made for the current page
    last,           \* <<>>, or <<[f, before, at]>>: the latest upsert of the
                    \* open session: its dict, the row it met, its utcnow()
    page_base,      \* the committed rows when the current page was fetched
    prev,           \* <<>>, or <<rows>>: the table at the end of the previous
                    \* run, kept when that run completed on the same upstream
    run_base,       \* [rows, recovering]: the table when the current run
                    \* started or, when the runs before it FAILED on the same
                    \* upstream (recovering), when the first of them started
    raw,            \* parse_facility's argument `data` (mapper specification)
    parsed,         \* parse_facility's return value: <<>> is None, <<f>> a dict
    ppc,            \* "input" before the call of parse_facility, "parsed" after
    conc            \* two runs of sync_facilities on one database at a time
                    \* (concurrent specification): [run, won, wrote, overlap]

svars == <<store, session, pc, upstream, offset, total_synced, facilities, idx,
           fetches, now, runs, logged, upserted, last, page_base, prev,
           run_base>>

pvars == <<raw, parsed, ppc>>

cvars == <<conc>>

vars == <<svars, pvars, cvars>>

-----------------------------------------------------------------------------
(* JSON values and Python strings *)

Absent == [t |-> "absent", s |-> <<>>, n |-> 0]
Null == [t |-> "null", s |-> <<>>, n |-> 0]
Str(cs) == [t |-> "str", s |-> cs, n |-> 0]
IntV(i) == [t |-> "int", s |-> <<>>, n |-> i]
FloatV(tenths) == [t |-> "float", s |-> <<>>, n |-> tenths]

Digits == <<"0", "1", "2", "3", "4", "5", "6", "7", "8", "9">>

IsDigitChar(c) == \E i \in 1..Len(Digits) : Digits[i] = c

DigitVal(c) == (CHOOSE i \in 1..Len(Digits) : Digits[i] = c) - 1

IsSpace(c) == c = " "

\* The one element of a singleton set.  A value is named by binding it in
\* {e : x \in {v}}, so that it is computed once however often e uses it.
TheOnly(S) == CHOOSE x \in S : TRUE

\* str.strip(): the string without its leading and trailing whitespace
Strip(cs) ==
    IF \A i \in 1..Len(cs) : IsSpace(cs[i]) THEN <<>>
    ELSE SubSeq(cs,
                CHOOSE i \in 1..Len(cs) :
                    ~IsSpace(cs[i]) /\ \A j \in 1..(i - 1) : IsSpace(cs[j]),
                CHOOSE i \in 1..Len(cs) :
                    ~IsSpace(cs[i]) /\ \A j \in (i + 1)..Len(cs) : IsSpace(cs[j]))

\* str.isdigit(): non-empty and every character a digit
IsDigit(cs) == cs # <<>> /\ \A i \in 1..Len(cs) : IsDigitChar(cs[i])

AllDigits(cs) == \A i \in 1..Len(cs) : IsDigitChar(cs[i])

\* The number a string of decimal digits denotes
DigitsValue(cs) ==
    LET value[i \in 0..Len(cs)] ==
            IF i = 0 THEN 0 ELSE 10 * value[i - 1] + DigitVal(cs[i])
    IN  value[Len(cs)]

\* The result of an expression that may raise: ok = FALSE is the exception.
Ok(v) == [ok |-> TRUE, v |-> v]
Raise == [ok |-> FALSE, v |-> 0]

Unsigned(cs) ==
    IF cs # <<>> /\ Head(cs) \in {"-", "+"} THEN Tail(cs) ELSE cs

Sign(cs) == IF cs # <<>> /\ Head(cs) = "-" THEN -1 ELSE 1

\* int(str): surrounding whitespace, an optional sign, decimal digits
IntOfStr(cs) ==
    TheOnly({IF IsDigit(Unsigned(t))
             THEN Ok(Sign(t) * DigitsValue(Unsigned(t)))
             ELSE Raise : t \in {Strip(cs)}})

\* The index of the first "." of cs, or 0
DotAt(cs) ==
    IF \E i \in 1..Len(cs) : cs[i] = "."
    THEN CHOOSE i \in 1..Len(cs) :
            cs[i] = "." /\ \A j \in 1..(i - 1) : cs[j] # "."
    ELSE 0

\* The sign applied to the digits around the point at position dot (0 when
\* there is none), in tenths; ValueError unless both sides are digits, one
\* at least.
FloatOfDigits(sign, body, dot) ==
    LET ip == IF dot = 0 THEN body ELSE SubSeq(body, 1, dot - 1)
        fp == IF dot = 0 THEN <<>> ELSE SubSeq(body, dot + 1, Len(body))
    IN  IF AllDigits(ip) /\ AllDigits(fp) /\ Len(ip) + Len(fp) > 0 /\ Len(fp) <= 1
        THEN Ok(sign * (10 * DigitsValue(ip) + DigitsValue(fp)))
        ELSE Raise

\* float(str), in tenths: surrounding whitespace, an optional sign, digits
\* with at most one "." and at least one digit.  (Exponents, "inf" and "nan"
\* need characters the inputs of this model do not contain, and the inputs
\* carry at most one digit after the point.)
FloatOfStr(cs) ==
    TheOnly({TheOnly({FloatOfDigits(Sign(t), Unsigned(t), dot) :
                        dot \in {DotAt(Unsigned(t))}}) : t \in {Strip(cs)}})

\* Python truthiness of a JSON value
Truthy(v) ==
    CASE v.t = "str" -> v.s # <<>>
      [] v.t = "int" -> v.n # 0
      [] v.t = "float" -> v.n # 0
      [] OTHER -> FALSE

\* data.get(key, default)
Get(data, key, default) == IF data[key].t = "absent" THEN default ELSE data[key]

\* Truncation toward zero of a number of tenths: int(float)
TruncTenths(n) == IF n >= 0 THEN n \div 10 ELSE -((-n) \div 10)

\* int(data.get(key, 0) or 0)
IntOrZero(data, key) ==
    LET v == Get(data, key, IntV(0))
    IN  IF ~Truthy(v) THEN Ok(0)
        ELSE CASE v.t = "int" -> Ok(v.n)
               [] v.t = "float" -> Ok(TruncTenths(v.n))
               [] OTHER -> IntOfStr(v.s)

\* float(data.get(key, 0) or 0), in tenths
FloatOrZero(data, key) ==
    LET v == Get(data, key, IntV(0))
    IN  IF ~Truthy(v) THEN Ok(0)
        ELSE CASE v.t = "int" -> Ok(10 * v.n)
               [] v.t = "float" -> Ok(v.n)
               [] OTHER -> FloatOfStr(v.s)

\* data.get(key, default).strip(): AttributeError unless the value is a str
StripField(data, key, default) ==
    LET v == Get(data, key, Str(default))
    IN  IF v.t = "str" THEN Ok(Strip(v.s)) ELSE Raise

-----------------------------------------------------------------------------
(* datetime.strptime(s, "%m/%d/%Y") *)

SlashAt(cs) == {i \in 1..Len(cs) : cs[i] = "/"}

IsLeap(y) == (y % 4 = 0 /\ y % 100 # 0) \/ y % 400 = 0

DaysIn(m, y) ==
    CASE m \in {4, 6, 9, 11} -> 30
      [] m = 2 -> IF IsLeap(y) THEN 29 ELSE 28
      [] OTHER -> 31

\* The calendar check of datetime(year, month, day)
DateOf(m, d, y) ==
    IF m \in 1..12 /\ y >= 1 /\ d \in 1..DaysIn(m, y)
    THEN Ok([year |-> y, month |-> m, day |-> d])
    ELSE Raise

\* One or two digits for %m and %d, four digits for %Y
FieldsOf(ms, ds, ys) ==
    IF /\ IsDigit(ms) /\ Len(ms) <= 2
       /\ IsDigit(ds) /\ Len(ds) <= 2
       /\ IsDigit(ys) /\ Len(ys) = 4
    THEN TheOnly({DateOf(m, d, y) : m \in {DigitsValue(ms)}, d \in {DigitsValue(ds)},
                                    y \in {DigitsValue(ys)}})
    ELSE Raise

\* strptime: the two "/" split the month, the day and the year; ValueError
\* (Raise) for any other shape and for a date the calendar does not have.
StrpTime(cs) ==
    IF Cardinality(SlashAt(cs)) # 2 THEN Raise
    ELSE TheOnly({FieldsOf(SubSeq(cs, 1, p[1] - 1),
                           SubSeq(cs, p[1] + 1, p[2] - 1),
                           SubSeq(cs, p[2] + 1, Len(cs))) :
                    p \in {q \in SlashAt(cs) \X SlashAt(cs) : q[1] < q[2]}})

\* Lines 111-118: None unless the value is truthy and strptime accepts it;
\* the bare except turns every failure (a TypeError for a value that is not
\* a str, a ValueError for a str of another shape) into None.
LastInspection(data) ==
    LET v == Get(data, "CWPDateLastInspection", Null)
    IN  IF Truthy(v) /\ v.t = "str"
        THEN TheOnly({IF r.ok THEN <<r.v>> ELSE <<>> : r \in {StrpTime(v.s)}})
        ELSE <<>>

-----------------------------------------------------------------------------
(* parse_facility *)

REPEAT_VIOLATOR_QUARTERS == 16

\* Lines 103-104: quarters_str.isdigit() raises AttributeError unless the
\* value is a str; the default for a missing key is the str "0".
QuartersWithViolations(data) ==
    LET v == Get(data, "CWPQtrsWithNC", Str(<<"0">>))
    IN  IF v.t # "str" THEN Raise
        ELSE IF IsDigit(v.s) THEN Ok(DigitsValue(v.s)) ELSE Ok(0)

\* The dict built at lines 120-139, given that nothing raised.
FacilityDict(data, utcnow) ==
    LET quarters_with_violations == QuartersWithViolations(data).v
        formal_count == IntOrZero(data, "CWPFormalEaCnt").v
        penalties == FloatOrZero(data, "CWPTotalPenalties").v
    IN  [npdes_id |-> StripField(data, "SourceID", <<>>).v,
         name |-> StripField(data, "CWPName", <<>>).v,
         city |-> StripField(data, "CWPCity", <<>>).v,
         county |-> StripField(data, "CWPCounty", <<>>).v,
         state |-> StripField(data, "CWPState", <<"T", "X">>).v,
         zip_code |-> StripField(data, "CWPZip", <<>>).v,
         latitude |-> FloatOrZero(data, "FacLat").v,
         longitude |-> FloatOrZero(data, "FacLong").v,
         cwa_current_status |-> StripField(data, "CWPStatus", <<>>).v,
         quarters_with_violations |-> quarters_with_violations,
         formal_enforcement_count |-> formal_count,
         total_penalties |-> penalties,
         last_inspection_date |-> LastInspection(data),
         last_echo_sync |-> utcnow,
         is_repeat_violator |-> quarters_with_violations >= REPEAT_VIOLATOR_QUARTERS,
         has_penalty_gap |-> formal_count > 0 /\ penalties = 0]

\* Whether some expression of the try block raises (lines 101-141).
ParseRaises(data) ==
    \/ ~QuartersWithViolations(data).ok
    \/ ~IntOrZero(data, "CWPFormalEaCnt").ok
    \/ ~FloatOrZero(data, "CWPTotalPenalties").ok
    \/ ~StripField(data, "SourceID", <<>>).ok
    \/ ~StripField(data, "CWPName", <<>>).ok
    \/ ~StripField(data, "CWPCity", <<>>).ok
    \/ ~StripField(data, "CWPCounty", <<>>).ok
    \/ ~StripField(data, "CWPState", <<"T", "X">>).ok
    \/ ~StripField(data, "CWPZip", <<>>).ok
    \/ ~FloatOrZero(data, "FacLat").ok
    \/ ~FloatOrZero(data, "FacLong").ok
    \/ ~StripField(data, "CWPStatus", <<>>).ok

\* A record with no key at all
BlankRecord ==
    [SourceID |-> Absent, CWPName |-> Absent, CWPCity |-> Absent,
     CWPCounty |-> Absent, CWPState |-> Absent, CWPZip |-> Absent,
     FacLat |-> Absent, FacLong |-> Absent, CWPStatus |-> Absent,
     CWPQtrsWithNC |-> Absent, CWPFormalEaCnt |-> Absent,
     CWPTotalPenalties |-> Absent, CWPDateLastInspection |-> Absent]

\* An except clause that returns the dict of defaults instead of None.
parse_facility_Defaults(data, utcnow) ==
    IF ParseRaises(data)
    THEN <<FacilityDict(BlankRecord, utcnow)>>
    ELSE <<FacilityDict(data, utcnow)>>

\* parse_facility(data): None (<<>>) when anything raised, else the dict.
parse_facility(data, utcnow) ==
    IF ParseRaises(data) THEN <<>> ELSE <<FacilityDict(data, utcnow)>>

-----------------------------------------------------------------------------
(* The facilities table and upsert_facility *)

\* A set_ clause that adds the penalties to the stored ones.
SetFromExcluded_Accumulate(row, f) ==
    [row EXCEPT
        !.name = f.name,
        !.city = f.city,
        !.county = f.county,
        !.zip_code = f.zip_code,
        !.latitude = f.latitude,
        !.longitude = f.longitude,
        !.cwa_current_status = f.cwa_current_status,
        !.quarters_with_violations = f.quarters_with_violations,
        !.formal_enforcement_count = f.formal_enforcement_count,
        !.total_penalties = row.total_penalties + f.total_penalties,
        !.last_inspection_date = f.last_inspection_date,
        !.is_repeat_violator = f.is_repeat_violator,
        !.has_penalty_gap = f.has_penalty_gap,
        !.last_echo_sync = f.last_echo_sync]

\* A set_ clause that leaves has_penalty_gap out.
SetFromExcluded_StaleFlag(row, f) ==
    [row EXCEPT
        !.name = f.name,
        !.city = f.city,
        !.county = f.county,
        !.zip_code = f.zip_code,
        !.latitude = f.latitude,
        !.longitude = f.longitude,
        !.cwa_current_status = f.cwa_current_status,
        !.quarters_with_violations = f.quarters_with_violations,
        !.formal_enforcement_count = f.formal_enforcement_count,
        !.total_penalties = f.total_penalties,
        !.last_inspection_date = f.last_inspection_date,
        !.is_repeat_violator = f.is_repeat_violator,
        !.last_echo_sync = f.last_echo_sync]

\* The columns of the on_conflict_do_update set_ clause taken from the
\* excluded (proposed) row, lines 153-166.
SetFromExcluded(row, f) ==
    [row EXCEPT
        !.name = f.name,
        !.city = f.city,
        !.county = f.county,
        !.zip_code = f.zip_code,
        !.latitude = f.latitude,
        !.longitude = f.longitude,
        !.cwa_current_status = f.cwa_current_status,
        !.quarters_with_violations = f.quarters_with_violations,
        !.formal_enforcement_count = f.formal_enforcement_count,
        !.total_penalties = f.total_penalties,
        !.last_inspection_date = f.last_inspection_date,
        !.is_repeat_violator = f.is_repeat_violator,
        !.has_penalty_gap = f.has_penalty_gap,
        !.last_echo_sync = f.last_echo_sync]

\* A DO UPDATE arm that reads a local clock, one unit behind UTC.
ConflictUpdate_LocalTime(row, f, utcnow) ==
    [SetFromExcluded(row, f) EXCEPT !.updated_at = utcnow - 1]

\* A DO UPDATE arm that stamps created_at as well.
ConflictUpdate_Created(row, f, utcnow) ==
    [SetFromExcluded(row, f) EXCEPT !.updated_at = utcnow, !.created_at = utcnow]

\* The DO UPDATE arm: the set_ clause, with updated_at the client's utcnow().
ConflictUpdate(row, f, utcnow) ==
    [SetFromExcluded(row, f) EXCEPT !.updated_at = utcnow]

\* The row INSERT ... VALUES (**facility_data) proposes: created_at and
\* updated_at take their server_default, now() of the transaction.
InsertedRow(f, dbnow) ==
    [npdes_id |-> f.npdes_id,
     name |-> f.name,
     city |-> f.city,
     county |-> f.county,
     state |-> f.state,
     zip_code |-> f.zip_code,
     latitude |-> f.latitude,
     longitude |-> f.longitude,
     cwa_current_status |-> f.cwa_current_status,
     quarters_with_violations |-> f.quarters_with_violations,
     formal_enforcement_count |-> f.formal_enforcement_count,
     total_penalties |-> f.total_penalties,
     last_inspection_date |-> f.last_inspection_date,
     is_repeat_violator |-> f.is_repeat_violator,
     has_penalty_gap |-> f.has_penalty_gap,
     last_echo_sync |-> f.last_echo_sync,
     created_at |-> dbnow,
     updated_at |-> dbnow]

\* The rows of a table that conflict with f on index_elements=['npdes_id'].
Conflicting(rows, f) == {r \in rows : r.npdes_id = f.npdes_id}

\* A statement that empties the table before it inserts.
upsert_facility_Reload(rows, f, utcnow, dbnow) == {InsertedRow(f, dbnow)}

\* A plain INSERT into a table without the unique index on npdes_id.
upsert_facility_Insert(rows, f, utcnow, dbnow) ==
    rows \cup {InsertedRow(f, dbnow)}

\* upsert_facility: INSERT ... ON CONFLICT (npdes_id) DO UPDATE SET ...
upsert_facility(rows, f, utcnow, dbnow) ==
    IF Conflicting(rows, f) # {}
    THEN {IF r.npdes_id = f.npdes_id THEN ConflictUpdate(r, f, utcnow) ELSE r :
            r \in rows}
    ELSE rows \cup {InsertedRow(f, dbnow)}

\* The row of a table for an identifier, as an Optional
RowOf(rows, id) ==
    IF \E r \in rows : r.npdes_id = id
    THEN <<CHOOSE r \in rows : r.npdes_id = id>>
    ELSE <<>>

-----------------------------------------------------------------------------
(* The upstream API's data *)

BATCH_SIZE == 2     \* SYNC_BATCH_SIZE, line 20 (100 when the variable is unset)

MaxRuns == 2        \* runs of sync_facilities
MaxClock == 1       \* the largest reading of the wall clock

Record(id, name, state, qtrs, formal, pen, date) ==
    [SourceID |-> id,
     CWPName |-> name,
     CWPCity |-> Str(<<"H", "o", "u">>),
     CWPCounty |-> Absent,
     CWPState |-> state,
     CWPZip |-> Str(<<"7", "7">>),
     FacLat |-> FloatV(297),
     FacLong |-> Str(<<"-", "9", "5", ".", "4">>),
     CWPStatus |-> Str(<<"V">>),
     CWPQtrsWithNC |-> qtrs,
     CWPFormalEaCnt |-> formal,
     CWPTotalPenalties |-> pen,
     CWPDateLastInspection |-> date]

\* The upstream records the pages are cut from: TX1 as a repeat violator
\* with a penalty gap; TX1 again, padded, renamed and in another state; a
\* record of TX2 whose name is null; TX2 with negative counts.
RawSeq ==
    << Record(Str(<<"T", "X", "1">>), Str(<<"A">>), Absent,
              Str(<<"1", "6">>), IntV(3), IntV(0),
              Str(<<"0", "1", "/", "1", "5", "/", "2", "0", "2", "4">>)),
       Record(Str(<<" ", "T", "X", "1", " ">>), Str(<<"B", " ">>), Str(<<"O", "K">>),
              Str(<<"3">>), IntV(0), FloatV(15),
              Str(<<"2", "0", "2", "4", "-", "0", "1", "-", "1", "5">>)),
       Record(Str(<<"T", "X", "2">>), Null, Absent,
              Str(<<"1", "6">>), IntV(1), IntV(0), Absent),
       Record(Str(<<"T", "X", "2">>), Str(<<"C">>), Absent,
              Absent, Str(<<"-", "3">>), IntV(-3), Null) >>

\* The number of records in the first j pages of the given sizes
SumTo(sizes, j) ==
    LET total[k \in 0..j] == IF k = 0 THEN 0 ELSE total[k - 1] + sizes[k]
    IN  total[j]

\* Pages of the given sizes, cut from RawSeq repeated, from position start.
PagesOf(sizes, start) ==
    [j \in 1..Len(sizes) |->
        [i \in 1..sizes[j] |->
            RawSeq[((start + SumTo(sizes, j - 1) + i - 2) % Len(RawSeq)) + 1]]]

\* The page sizes the upstream may hold, B being BATCH_SIZE: nothing; one
\* short or full page; full pages ended by an empty or a short page (among
\* them the shapes [B, B, 0] and [B, B, B, short]); and a short page with a
\* full page behind it.
SizeSeqs ==
    LET B == BATCH_SIZE
    IN  { <<>>, <<B - 1>>, <<B>>, <<B, 0>>, <<B, B - 1>>, <<B - 1, B>>,
          <<B, B, 0>>, <<B, B, B, B - 1>> }

\* The positions of RawSeq the data may start at
Starts == 1..2

Upstreams == {PagesOf(sz, st) : sz \in SizeSeqs, st \in Starts}

\* The upstream data a later run may find: unchanged, or every record
\* replaced by the one that follows it in RawSeq.
NextOf(r) ==
    RawSeq[((CHOOSE k \in 1..Len(RawSeq) : RawSeq[k] = r) % Len(RawSeq)) + 1]

Changed(pages) ==
    [j \in 1..Len(pages) |-> [i \in 1..Len(pages[j]) |-> NextOf(pages[j][i])]]

UpstreamsAfter(pages) == {pages, Changed(pages)}

\* What the API answers at an offset: the page there, or no facilities.
PageAt(pages, off) ==
    IF off \div BATCH_SIZE + 1 \in 1..Len(pages)
    THEN pages[off \div BATCH_SIZE + 1]
    ELSE <<>>

-----------------------------------------------------------------------------
(* sync_facilities *)

\* A loop that goes on until a page is empty.
LastPage_Empty(page) == Len(page) = 0

\* Line 87: the page was the last one.
LastPage(page) == Len(page) < BATCH_SIZE

\* An offset that counts pages instead of records.
NextOffset_Page(off) == off + 1

\* Line 90
NextOffset(off) == off + BATCH_SIZE

\* A session whose statements are committed when it is closed.
RollBack_Flush(committed, sess) ==
    IF sess = <<>> THEN committed ELSE sess[1].rows

\* The committed rows once a session is left without commit(): leaving the
\* `async with` block of line 75 closes the session, which rolls back.
RollBack(committed, sess) == committed

\* The processes that run sync_facilities at the same time
Runs == {1, 2}

\* Before either of them starts: no page, no transaction; no write won or
\* committed.
ConcIdle ==
    [run |-> [r \in Runs |->
                [pc |-> "IDLE", pages |-> <<>>, offset |-> 0, facilities |-> <<>>,
                 idx |-> 1, rows |-> {}, dicts |-> {}, start |-> <<>>]],
     won |-> {},
     wrote |-> {},
     overlap |-> FALSE]

Init ==
    /\ store = {}
    /\ session = <<>>
    /\ pc = "IDLE"
    /\ upstream = <<>>
    /\ offset = 0
    /\ total_synced = 0
    /\ facilities = <<>>
    /\ idx = 1
    /\ fetches = <<>>
    /\ now = 0
    /\ runs = 0
    /\ logged = 0
    /\ upserted = 0
    /\ last = <<>>
    /\ page_base = {}
    /\ prev = <<>>
    /\ run_base = [rows |-> {}, recovering |-> FALSE]
    /\ conc = ConcIdle
    /\ raw = RawSeq[1]
    /\ parsed = <<>>
    /\ ppc = "idle"

\* Lines 50-58: a run starts on the upstream data u (create_all leaves an
\* existing table alone).
RunStarts(u) ==
    /\ pc \in {"IDLE", "DONE", "FAILED"}
    /\ runs < MaxRuns
    /\ upstream' = u
    /\ prev' = IF pc = "DONE" /\ u = upstream THEN <<store>> ELSE <<>>
    /\ runs' = runs + 1
    /\ offset' = 0
    /\ total_synced' = 0
    /\ fetches' = <<>>
    /\ facilities' = <<>>
    /\ idx' = 1
    /\ logged' = 0
    /\ upserted' = 0
    /\ last' = <<>>
    /\ page_base' = store
    /\ pc' = "FETCHING"
    /\ UNCHANGED <<store, session, now, pvars, cvars>>

\* The upstream data a run may find
UpstreamsNow == IF runs = 0 THEN Upstreams ELSE UpstreamsAfter(upstream)

StartRun ==
    /\ \E u \in UpstreamsNow : RunStarts(u)
    /\ UNCHANGED run_base

\* A run starts, and the table it starts on is kept for the comparison of
\* a recovery with an uninterrupted run.
StartTracked ==
    \E u \in UpstreamsNow :
        /\ RunStarts(u)
        /\ run_base' = IF pc = "FAILED" /\ u = upstream
                       THEN [rows |-> run_base.rows, recovering |-> TRUE]
                       ELSE [rows |-> store, recovering |-> FALSE]

\* Lines 61-75: the page at offset is fetched; no facilities ends the run,
\* otherwise a session is opened on the committed table.
Fetch ==
    /\ pc = "FETCHING"
    /\ fetches' = Append(fetches, offset)
    /\ facilities' = PageAt(upstream, offset)
    /\ idx' = 1
    /\ logged' = 0
    /\ upserted' = 0
    /\ last' = <<>>
    /\ page_base' = store
    /\ IF PageAt(upstream, offset) = <<>>
       THEN pc' = "DONE" /\ session' = <<>>
       ELSE pc' = "MAPPING" /\ session' = <<[rows |-> store, start |-> <<>>]>>
    /\ UNCHANGED <<store, upstream, offset, total_synced, now, runs, prev,
                   run_base, pvars, cvars>>

\* A client that swallows the failure and asks for the same offset again.
FetchFail_Retry ==
    /\ pc = "FETCHING"
    /\ fetches' = Append(fetches, offset)
    /\ UNCHANGED <<store, session, pc, upstream, offset, total_synced, facilities,
                   idx, now, runs, logged, upserted, last, page_base, prev,
                   run_base, pvars, cvars>>

\* Lines 41-43: the request times out, answers non-2xx or has no JSON body;
\* the exception leaves sync_facilities through its finally clause.
FetchFail ==
    /\ pc = "FETCHING"
    /\ fetches' = Append(fetches, offset)
    /\ pc' = "FAILED"
    /\ UNCHANGED <<store, session, upstream, offset, total_synced, facilities,
                   idx, now, runs, logged, upserted, last, page_base, prev,
                   run_base, pvars, cvars>>

\* Lines 76-79, one iteration: the record is parsed when the clock reads t1;
\* a dict is upserted when it reads t2, in the session's transaction, which
\* begins with its first statement; None is logged (line 144) and skipped.
\* The clock never goes back; how far it has gone at a reading is an input.
ProcessRecord ==
    /\ pc = "MAPPING"
    /\ idx <= Len(facilities)
    /\ \E t1 \in now..MaxClock, t2 \in now..MaxClock :
        /\ t1 <= t2
        /\ \E facility \in {parse_facility(facilities[idx], t1)} :
            LET rows == session[1].rows
                began == IF session[1].start = <<>> THEN t2 ELSE session[1].start[1]
            IN  IF facility # <<>>
                THEN /\ session' = <<[rows |-> upsert_facility(rows, facility[1], t2, began),
                                      start |-> <<began>>]>>
                     /\ last' = <<[f |-> facility[1],
                                   before |-> RowOf(rows, facility[1].npdes_id),
                                   at |-> t2]>>
                     /\ upserted' = upserted + 1
                     /\ now' = t2
                     /\ UNCHANGED logged
                ELSE /\ logged' = logged + 1
                     /\ last' = <<>>
                     /\ now' = t1
                     /\ UNCHANGED <<session, upserted>>
    /\ idx' = idx + 1
    /\ UNCHANGED <<store, pc, upstream, offset, total_synced, facilities, fetches,
                   runs, page_base, prev,
                   run_base, pvars, cvars>>

\* Line 79 raises (the statement fails in the database): the session's
\* context manager rolls the transaction back and the run ends.
UpsertFail ==
    /\ pc = "MAPPING"
    /\ idx <= Len(facilities)
    /\ parse_facility(facilities[idx], now) # <<>>
    /\ store' = RollBack(store, session)
    /\ session' = <<>>
    /\ pc' = "FAILED"
    /\ UNCHANGED <<upstream, offset, total_synced, facilities, idx, fetches,
                   now, runs, logged, upserted, last, page_base, prev,
                   run_base, pvars, cvars>>

\* Lines 81-82: the session's transaction commits and the total advances.
Commit ==
    /\ pc = "MAPPING"
    /\ idx > Len(facilities)
    /\ store' = session[1].rows
    /\ session' = <<>>
    /\ total_synced' = total_synced + Len(facilities)
    /\ pc' = "COMMITTED"
    /\ UNCHANGED <<upstream, offset, facilities, idx, fetches, now, runs, logged,
                   upserted, last, page_base, prev,
                   run_base, pvars, cvars>>

\* Line 81 raises: nothing of the transaction is committed and the run ends.
CommitFail ==
    /\ pc = "MAPPING"
    /\ idx > Len(facilities)
    /\ store' = RollBack(store, session)
    /\ session' = <<>>
    /\ pc' = "FAILED"
    /\ UNCHANGED <<upstream, offset, total_synced, facilities, idx, fetches,
                   now, runs, logged, upserted, last, page_base, prev,
                   run_base, pvars, cvars>>

\* Lines 84-93: a page shorter than BATCH_SIZE was the last one; otherwise
\* the offset advances and, after the pause, the next page is fetched.
LoopCheck ==
    /\ pc = "COMMITTED"
    /\ IF LastPage(facilities)
       THEN pc' = "DONE" /\ UNCHANGED offset
       ELSE pc' = "FETCHING" /\ offset' = NextOffset(offset)
    /\ UNCHANGED <<store, session, upstream, total_synced, facilities, idx, fetches,
                   now, runs, logged, upserted, last, page_base, prev,
                   run_base, pvars, cvars>>

\* The process is terminated from outside while a run is under way: an open
\* transaction is never committed.
Stop ==
    /\ pc \in {"FETCHING", "MAPPING", "COMMITTED"}
    /\ store' = RollBack(store, session)
    /\ session' = <<>>
    /\ pc' = "FAILED"
    /\ UNCHANGED <<upstream, offset, total_synced, facilities, idx, fetches,
                   now, runs, logged, upserted, last, page_base, prev,
                   run_base, pvars, cvars>>

Next ==
    \/ StartRun
    \/ Fetch
    \/ FetchFail
    \/ ProcessRecord
    \/ UpsertFail
    \/ Commit
    \/ CommitFail
    \/ LoopCheck
    \/ Stop

Spec == Init /\ [][Next]_vars

\* asyncio.run drives the coroutine of sync_facilities until it returns or
\* raises: a step of the run that can be taken is taken.
RunStep == Fetch \/ ProcessRecord \/ Commit \/ LoopCheck

LiveSpec == Init /\ [][Next]_vars /\ WF_vars(RunStep)

\* The same runs, the table each run started on being kept.
NextTracked ==
    \/ StartTracked
    \/ Fetch
    \/ FetchFail
    \/ ProcessRecord
    \/ UpsertFail
    \/ Commit
    \/ CommitFail
    \/ LoopCheck
    \/ Stop

TrackedSpec == Init /\ [][NextTracked]_vars

-----------------------------------------------------------------------------
(* Two runs of sync_facilities at the same time, on one PostgreSQL database
   at its default isolation level (READ COMMITTED) *)

\* What the two runs may find upstream: TX1 then TX2 in a full page; TX2
\* then TX1 (renamed, in another state) in a full page; TX1 alone; TX1 and
\* a record that cannot be mapped, then TX2 in a second page.
ConcUpstreams ==
    { << <<RawSeq[1], RawSeq[4]>> >>,
      << <<RawSeq[4], RawSeq[2]>> >>,
      << <<RawSeq[2]>> >>,
      << <<RawSeq[1], RawSeq[3]>>, <<RawSeq[4]>> >> }

\* The variables of the single run, which the two runs leave alone
seqvars == <<session, pc, upstream, offset, total_synced, facilities, idx,
             fetches, now, runs, logged, upserted, last, page_base, prev,
             run_base, pvars>>

\* The other run
COther(r) == CHOOSE o \in Runs : o # r

\* The row version a statement of run r finds for an identifier: the one
\* its own transaction wrote, else the committed one.
CVisible(r, id) ==
    LET mine == {x \in conc.run[r].rows : x.npdes_id = id}
    IN  IF mine # {} THEN mine ELSE {x \in store : x.npdes_id = id}

\* The other run's open transaction has inserted or updated the identifier:
\* a statement of run r on it waits until that transaction ends.
CLocked(r, id) == \E x \in conc.run[COther(r)].rows : x.npdes_id = id

\* Run r is at a statement that waits for the other run's transaction.
CWaits(r) ==
    LET me == conc.run[r]
    IN  /\ me.pc = "MAPPING"
        /\ me.idx <= Len(me.facilities)
        /\ \E facility \in {parse_facility(me.facilities[me.idx], now)} :
              facility # <<>> /\ CLocked(r, facility[1].npdes_id)

\* Lines 50-58 for run r
CStart(r) ==
    /\ conc.run[r].pc = "IDLE"
    /\ \E u \in ConcUpstreams :
          conc' = [conc EXCEPT !.run[r].pages = u, !.run[r].offset = 0,
                               !.run[r].pc = "FETCHING"]
    /\ UNCHANGED <<store, seqvars>>

\* Lines 61-75 for run r
CFetch(r) ==
    LET me == conc.run[r]
    IN  /\ me.pc = "FETCHING"
        /\ conc' = [conc EXCEPT !.run[r] =
                [me EXCEPT !.facilities = PageAt(me.pages, me.offset),
                           !.idx = 1,
                           !.pc = IF PageAt(me.pages, me.offset) = <<>>
                                  THEN "DONE" ELSE "MAPPING"]]
        /\ UNCHANGED <<store, seqvars>>

\* Lines 76-79 for run r, one iteration: None is skipped; a dict is
\* upserted once no open transaction of the other run holds its identifier,
\* onto the row version the statement then finds.
CMap(r) ==
    LET me == conc.run[r]
    IN  /\ me.pc = "MAPPING"
        /\ me.idx <= Len(me.facilities)
        /\ \E facility \in {parse_facility(me.facilities[me.idx], now)} :
              IF facility = <<>>
              THEN conc' = [conc EXCEPT !.run[r].idx = me.idx + 1]
              ELSE /\ ~CLocked(r, facility[1].npdes_id)
                   /\ \E began \in {IF me.start = <<>> THEN now ELSE me.start[1]} :
                        conc' = [conc EXCEPT
                            !.run[r] = [me EXCEPT
                                !.idx = me.idx + 1,
                                !.rows = {x \in me.rows : x.npdes_id # facility[1].npdes_id}
                                         \cup upsert_facility(
                                                CVisible(r, facility[1].npdes_id),
                                                facility[1], now, began),
                                !.dicts = {d \in me.dicts : d.npdes_id # facility[1].npdes_id}
                                          \cup {facility[1]},
                                !.start = <<began>>],
                            !.overlap = conc.overlap \/ conc.run[COther(r)].rows # {}]
        /\ UNCHANGED <<store, seqvars>>

\* Each run waits for the other: PostgreSQL detects the deadlock and fails
\* the statement of one of them (line 79 raises); its session rolls back.
CDeadlock(r) ==
    /\ CWaits(r)
    /\ CWaits(COther(r))
    /\ conc' = [conc EXCEPT !.run[r].pc = "FAILED", !.run[r].rows = {},
                            !.run[r].dicts = {}, !.run[r].start = <<>>,
                            !.overlap = TRUE]
    /\ UNCHANGED <<store, seqvars>>

\* Lines 81-82 for run r: its row versions replace the committed ones.
CCommit(r) ==
    LET me == conc.run[r]
    IN  /\ me.pc = "MAPPING"
        /\ me.idx > Len(me.facilities)
        /\ store' = {x \in store : \A w \in me.rows : w.npdes_id # x.npdes_id}
                    \cup me.rows
        /\ conc' = [conc EXCEPT
                !.run[r].pc = "COMMITTED", !.run[r].rows = {},
                !.run[r].dicts = {}, !.run[r].start = <<>>,
                !.won = {w \in conc.won : \A d \in me.dicts : d.npdes_id # w.npdes_id}
                        \cup me.dicts,
                !.wrote = conc.wrote \cup {<<r, d.npdes_id>> : d \in me.dicts}]
        /\ UNCHANGED seqvars

\* Lines 84-93 for run r
CLoopCheck(r) ==
    LET me == conc.run[r]
    IN  /\ me.pc = "COMMITTED"
        /\ conc' = IF LastPage(me.facilities)
                   THEN [conc EXCEPT !.run[r].pc = "DONE"]
                   ELSE [conc EXCEPT !.run[r].pc = "FETCHING",
                                     !.run[r].offset = NextOffset(me.offset)]
        /\ UNCHANGED <<store, seqvars>>

NextConc ==
    \E r \in Runs :
        \/ CStart(r)
        \/ CFetch(r)
        \/ CMap(r)
        \/ CDeadlock(r)
        \/ CCommit(r)
        \/ CLoopCheck(r)

ConcSpec == Init /\ [][NextConc]_vars

-----------------------------------------------------------------------------
(* The mapper on its own: parse_facility applied to one upstream record *)

\* identifier, name, state, latitude and inspection date of the inputs
HeadValues ==
    { <<Str(<<"T", "X", "1">>), Str(<<"A", " ">>), Absent, FloatV(297),
        Str(<<"0", "1", "/", "1", "5", "/", "2", "0", "2", "4">>)>>,
      <<Str(<<" ", "T", "X", "1">>), Str(<<"A">>), Str(<<"O", "K">>), Absent,
        Str(<<"0", "2", "/", "3", "0", "/", "2", "0", "2", "4">>)>>,
      <<Absent, Absent, Absent, Null, Absent>>,
      <<Str(<<"T", "X", "1">>), Null, Absent, Absent, IntV(5)>>,
      <<Str(<<"T", "X", "1">>), Str(<<"A">>), Absent, Str(<<"N", "/", "A">>), Null>> }

QuarterValues ==
    {Absent, Null, IntV(16), Str(<<>>), Str(<<"1", "6">>), Str(<<"1", "5">>),
     Str(<<"N", "/", "A">>), Str(<<"-", "3">>), Str(<<" ", "3">>)}

CountValues ==
    {Absent, Null, IntV(0), IntV(3), IntV(-3), FloatV(15), Str(<<>>),
     Str(<<"3">>), Str(<<"-", "3">>), Str(<<"N", "/", "A">>), Str(<<"1", ".", "5">>)}

PenaltyValues ==
    {Absent, Null, IntV(0), IntV(-3), FloatV(15), Str(<<"0", ".", "0">>),
     Str(<<"1", ".", "5">>), Str(<<"-", "3">>), Str(<<"N", "/", "A">>)}

ParseInput(h, qtrs, formal, pen) ==
    [Record(h[1], h[2], h[3], qtrs, formal, pen, h[5]) EXCEPT !.FacLat = h[4]]

InitParse ==
    /\ store = {}
    /\ session = <<>>
    /\ pc = "IDLE"
    /\ upstream = <<>>
    /\ offset = 0
    /\ total_synced = 0
    /\ facilities = <<>>
    /\ idx = 1
    /\ fetches = <<>>
    /\ now = 0
    /\ runs = 0
    /\ logged = 0
    /\ upserted = 0
    /\ last = <<>>
    /\ page_base = {}
    /\ prev = <<>>
    /\ run_base = [rows |-> {}, recovering |-> FALSE]
    /\ conc = ConcIdle
    /\ \E h \in HeadValues, qtrs \in QuarterValues, formal \in CountValues,
          pen \in PenaltyValues : raw = ParseInput(h, qtrs, formal, pen)
    /\ parsed = <<>>
    /\ ppc = "input"

\* parse_facility(raw) is called.
Parse ==
    /\ ppc = "input"
    /\ parsed' = parse_facility(raw, now)
    /\ ppc' = "parsed"
    /\ UNCHANGED <<raw, svars, cvars>>

NextParse == Parse

ParseSpec == InitParse /\ [][NextParse]_vars

-----------------------------------------------------------------------------
(* Properties *)

\* The table as a session sees it: the open transaction's rows, if any.
Visible == IF session = <<>> THEN store ELSE session[1].rows

\* The row the latest upsert of the open session left for its identifier
LastRow == RowOf(Visible, last[1].f.npdes_id)

\* C1: the facilities table never holds two rows with the same npdes_id,
\* neither committed nor inside an open transaction, whatever runs, failed
\* runs and repeated identifiers came before.
C1_OneRowPerIdentifier ==
    \A rows \in {store, Visible} :
        \A r1 \in rows, r2 \in rows : r1.npdes_id = r2.npdes_id => r1 = r2

\* C1 witness: a second run has committed a page whose latest upsert met a
\* row that was already stored.
C1_Witness ==
    /\ runs = 2
    /\ pc = "COMMITTED"
    /\ last # <<>>
    /\ last[1].before # <<>>
    /\ Cardinality(store) = 2

FlagsDerived(r) ==
    /\ r.is_repeat_violator = (r.quarters_with_violations >= 16)
    /\ r.has_penalty_gap = (r.formal_enforcement_count > 0 /\ r.total_penalties = 0)

\* C2: every row, committed or just upserted in the open transaction, has
\* is_repeat_violator = (quarters_with_violations >= 16) and has_penalty_gap
\* = (formal_enforcement_count > 0 and total_penalties = 0) on its own values.
C2_FlagsDerived == \A r \in store \cup Visible : FlagsDerived(r)

\* C2 witness: an upsert has just updated a row and turned both of its flags.
C2_Witness ==
    /\ last # <<>>
    /\ last[1].before # <<>>
    /\ LastRow # <<>>
    /\ LastRow[1].has_penalty_gap # last[1].before[1].has_penalty_gap
    /\ LastRow[1].is_repeat_violator # last[1].before[1].is_repeat_violator

\* The number of fetches that reaches the first page that is empty or
\* shorter than BATCH_SIZE, no page being one past the end of the data.
ExpectedFetches(pages) ==
    IF \E j \in 1..Len(pages) : Len(pages[j]) < BATCH_SIZE
    THEN CHOOSE j \in 1..Len(pages) :
            /\ Len(pages[j]) < BATCH_SIZE
            /\ \A i \in 1..(j - 1) : Len(pages[i]) >= BATCH_SIZE
    ELSE Len(pages) + 1

\* The fetches of a run stay within those that reach its last page, and a
\* run that is DONE has made exactly those.
C3_Counts ==
    /\ pc \in {"FETCHING", "MAPPING", "COMMITTED", "DONE", "FAILED"}
        => Len(fetches) <= ExpectedFetches(upstream)
    /\ pc = "DONE" => Len(fetches) = ExpectedFetches(upstream)

\* A run ends FAILED only by a failure or a stop.
C3_FailedByFailure ==
    (pc' = "FAILED" /\ pc # "FAILED") =>
        (FetchFail \/ UpsertFail \/ CommitFail \/ Stop)

\* C3: a run never fetches past the first page that is empty or shorter
\* than BATCH_SIZE, a run that is DONE has fetched exactly up to that page,
\* and no run stays under way for ever: it ends, and it ends DONE unless a
\* failure or a stop ended it.
C3_Pagination ==
    /\ []C3_Counts
    /\ [][C3_FailedByFailure]_vars
    /\ []<>(pc \in {"IDLE", "DONE", "FAILED"})

\* C3 witness: a run over pages of sizes [B, B, B, B - 1] is DONE after
\* four fetches, the last page being the short one.
C3_Witness ==
    /\ pc = "DONE"
    /\ Len(upstream) = 4
    /\ Len(fetches) = 4
    /\ Len(facilities) = BATCH_SIZE - 1

\* The records of a page that parse_facility cannot map
Rejects(page) == {i \in 1..Len(page) : ParseRaises(page[i])}

\* The identifier a record that can be mapped is stored under
IdOf(r) == StripField(r, "SourceID", <<>>).v

\* The last record of a page that can be mapped and has the identifier of
\* its i-th record
LastWith(page, i) ==
    CHOOSE j \in (1..Len(page)) \ Rejects(page) :
        /\ IdOf(page[j]) = IdOf(page[i])
        /\ \A k \in (1..Len(page)) \ Rejects(page) :
                IdOf(page[k]) = IdOf(page[i]) => k <= j

\* Whether a table shows the writes of all the records of a page that can
\* be mapped: each identifier has a row carrying its last such record.
PageVisible(rows, page) ==
    \A i \in (1..Len(page)) \ Rejects(page) :
        \E r \in rows :
            /\ r.npdes_id = IdOf(page[i])
            /\ r.name = StripField(page[LastWith(page, i)], "CWPName", <<>>).v
            /\ r.total_penalties = FloatOrZero(page[LastWith(page, i)], "CWPTotalPenalties").v

\* C4: when a page of n records, k of which parse_facility cannot map, has
\* been committed, n - k upserts were made and k skips logged, the table
\* shows the writes of the n - k records, and no other row has changed.
C4_MalformedSkipped ==
    pc = "COMMITTED" =>
        /\ upserted = Len(facilities) - Cardinality(Rejects(facilities))
        /\ logged = Cardinality(Rejects(facilities))
        /\ PageVisible(store, facilities)
        /\ \A r \in store :
              \/ r \in page_base
              \/ \E i \in (1..Len(facilities)) \ Rejects(facilities) :
                    IdOf(facilities[i]) = r.npdes_id

\* C4 witness: a page of one record that can be mapped and one that cannot
\* has been committed, with one upsert and one logged skip.
C4_Witness ==
    /\ pc = "COMMITTED"
    /\ Len(facilities) = 2
    /\ logged = 1
    /\ upserted = 1
    /\ Cardinality(store) = 1

\* The columns that a repeated sync is to leave as they are
Settled(rows) == {[r EXCEPT !.updated_at = 0, !.last_echo_sync = 0] : r \in rows}

\* C5: a run completed on the upstream data of the run completed just
\* before it leaves the same identifiers and, but for updated_at and
\* last_echo_sync, the same rows.
C5_Idempotent ==
    (pc = "DONE" /\ prev # <<>>) =>
        /\ Settled(store) = Settled(prev[1])
        /\ Cardinality(store) = Cardinality(prev[1])

\* C5 witness: a second complete run on the same data of two facilities,
\* which has moved their timestamps.
C5_Witness ==
    /\ pc = "DONE"
    /\ prev # <<>>
    /\ Cardinality(store) = 2
    /\ \A r \in store : r \notin prev[1]

\* C6: an upsert that met a row and was not rolled back leaves one row for the identifier, with the
\* created_at it had, the name of the new dict and updated_at the clock
\* reading of that upsert.
C6_UpsertMerge ==
    (last # <<>> /\ last[1].before # <<>> /\ pc # "FAILED") =>
        /\ Cardinality({r \in Visible : r.npdes_id = last[1].f.npdes_id}) = 1
        /\ LastRow[1].created_at = last[1].before[1].created_at
        /\ LastRow[1].name = last[1].f.name
        /\ LastRow[1].updated_at = last[1].at

\* C6 witness: in a second run an upsert renamed a row committed by the
\* first run, its updated_at now later than its created_at.
C6_Witness ==
    /\ runs = 2
    /\ pc = "MAPPING"
    /\ last # <<>>
    /\ last[1].before # <<>>
    /\ last[1].before[1] \in store
    /\ last[1].before[1].name # last[1].f.name
    /\ LastRow[1].created_at < LastRow[1].updated_at

\* The upstream-derived columns of a row or of a mapped dict
UpstreamColumns(r) ==
    [name |-> r.name, city |-> r.city, county |-> r.county, state |-> r.state,
     zip_code |-> r.zip_code, latitude |-> r.latitude, longitude |-> r.longitude,
     cwa_current_status |-> r.cwa_current_status,
     quarters_with_violations |-> r.quarters_with_violations,
     formal_enforcement_count |-> r.formal_enforcement_count,
     total_penalties |-> r.total_penalties,
     last_inspection_date |-> r.last_inspection_date,
     is_repeat_violator |-> r.is_repeat_violator,
     has_penalty_gap |-> r.has_penalty_gap]

\* C7 (as claimed): after an upsert that met a row and was not rolled back, every upstream-derived
\* column of the row, state included, has the value of the new dict.
C7_AllColumnsUpdated ==
    (last # <<>> /\ last[1].before # <<>> /\ pc # "FAILED") =>
        UpstreamColumns(LastRow[1]) = UpstreamColumns(last[1].f)

\* One step of a run, as page-level atomicity allows it: the committed table
\* changes only by the commit of a whole page, after which the writes of all
\* the page's mapped records show; a page that ends in FAILED leaves the
\* table as it was when the page was fetched; a FAILED run fetches no more.
C8_Step ==
    /\ store' # store =>
          /\ pc = "MAPPING" /\ pc' = "COMMITTED"
          /\ idx > Len(facilities)
          /\ PageVisible(store', facilities)
    /\ (pc = "MAPPING" /\ pc' = "FAILED") =>
          /\ store' = store
          /\ store' = page_base
          /\ Visible' = store'
    /\ (pc = "FAILED" /\ runs' = runs) => fetches' = fetches

\* C8: while a page is in progress none of its writes is in the committed
\* table; the table changes only by the commit of a whole page; a failed
\* upsert or commit or a stop mid-page leaves the table as the previously
\* committed pages left it, and the failed run fetches no more.
C8_PageAtomic ==
    /\ [](pc = "MAPPING" => store = page_base)
    /\ [][C8_Step]_vars

\* C8 witness: the second page of a run failed after an upsert; the row of
\* that upsert is not in the table, which is as the first page left it.
C8_Witness ==
    /\ pc = "FAILED"
    /\ Len(fetches) = 2
    /\ upserted >= 1
    /\ last # <<>>
    /\ store # {}
    /\ store = page_base
    /\ \A r \in store : r.npdes_id # last[1].f.npdes_id

\* The raw keys of the numeric fields the mapper coerces, with their columns
NumericKeys ==
    {<<"CWPFormalEaCnt", "formal_enforcement_count">>,
     <<"CWPTotalPenalties", "total_penalties">>,
     <<"FacLat", "latitude">>,
     <<"FacLong", "longitude">>}

\* An absent, null or non-numeric input
Lenient(v) == v \in {Absent, Null, Str(<<"N", "/", "A">>)}

\* C9 (as claimed): a record that can be mapped without one of its numeric
\* fields is also mapped when that field is absent, null or "N/A", with 0 in
\* the field's column; formal_enforcement_count = 3 with total_penalties = 0
\* gives has_penalty_gap = True.
C9_LenientNumbers ==
    ppc = "parsed" =>
        /\ \A k \in NumericKeys :
              (/\ Lenient(raw[k[1]])
               /\ parse_facility([raw EXCEPT ![k[1]] = Absent], now) # <<>>)
              => (parsed # <<>> /\ parsed[1][k[2]] = 0)
        /\ (/\ raw.CWPFormalEaCnt = IntV(3)
            /\ raw.CWPTotalPenalties = IntV(0)
            /\ parsed # <<>>)
              => parsed[1].has_penalty_gap

\* C10 (as claimed): no row, committed or upserted in the open transaction,
\* has a negative quarters_with_violations, formal_enforcement_count or
\* total_penalties.
C10_NonNegative ==
    \A r \in store \cup Visible :
        /\ r.quarters_with_violations >= 0
        /\ r.formal_enforcement_count >= 0
        /\ r.total_penalties >= 0

\* What a failed fetch may do: it ends the run with the committed table, the
\* open session (none) and the running total as they were; the run that
\* FAILED requests nothing more and writes nothing more.
C12_Step ==
    /\ (pc = "FETCHING" /\ pc' = "FAILED" /\ fetches' # fetches) =>
          /\ fetches' = Append(fetches, offset)
          /\ offset' = offset
          /\ store' = store
          /\ session' = <<>>
          /\ total_synced' = total_synced
    /\ (pc = "FAILED" /\ runs' = runs) =>
          /\ fetches' = fetches
          /\ store' = store
          /\ session' = <<>>

\* C12: a failed fetch ends the run: no offset is ever requested twice in a
\* run, the request that failed is the last of the run, nothing is written
\* for its page, and the table stays as the committed pages left it.
C12_FetchFailure ==
    /\ [](\A i \in 1..Len(fetches), j \in 1..Len(fetches) :
              fetches[i] = fetches[j] => i = j)
    /\ [](pc = "FETCHING" => session = <<>>)
    /\ [][C12_Step]_vars

\* C12 witness: the fetch of the second page failed after the first page
\* was committed: the run is FAILED with the rows of the first page stored.
C12_Witness ==
    /\ pc = "FAILED"
    /\ Len(fetches) = 2
    /\ fetches[2] = BATCH_SIZE
    /\ facilities = PageAt(upstream, 0)
    /\ total_synced = BATCH_SIZE
    /\ PageVisible(store, facilities)
    /\ store # {}

\* The two timestamps of the second row are not behind those of the first
NotBehind(r1, r2) ==
    /\ r2.updated_at >= r1.updated_at
    /\ r2.last_echo_sync >= r1.last_echo_sync

\* C14: an upsert that meets a row and is not rolled back leaves updated_at
\* and last_echo_sync no smaller than they were, and no step takes the
\* committed row of an identifier back in either, over any number of runs.
C14_Monotone ==
    /\ []((last # <<>> /\ last[1].before # <<>> /\ pc # "FAILED") =>
             NotBehind(last[1].before[1], LastRow[1]))
    /\ [][\A r1 \in store : \A r2 \in store' :
             r2.npdes_id = r1.npdes_id => NotBehind(r1, r2)]_vars

\* C14 witness: a second run has committed an upsert onto a row that was
\* stored before its page, and both timestamps of the row have advanced.
C14_Witness ==
    /\ runs = 2
    /\ pc = "COMMITTED"
    /\ last # <<>>
    /\ last[1].before # <<>>
    /\ last[1].before[1] \in page_base
    /\ LastRow[1] \in store
    /\ LastRow[1].updated_at > last[1].before[1].updated_at
    /\ LastRow[1].last_echo_sync > last[1].before[1].last_echo_sync

\* The identifiers of a table
IdsOf(rows) == {r.npdes_id : r \in rows}

\* C15: no step, of a run that completes or of one that fails, takes an
\* identifier out of the committed table, and no upsert takes one out of
\* the rows its transaction sees.
C15_NeverDeletes ==
    /\ [][IdsOf(store) \subseteq IdsOf(store')]_vars
    /\ [][(session # <<>> /\ session' # <<>>) =>
             IdsOf(session[1].rows) \subseteq IdsOf(session'[1].rows)]_vars
    /\ [](session # <<>> => IdsOf(store) \subseteq IdsOf(session[1].rows))

\* C15 witness: a second run is DONE on upstream data that no longer holds
\* a facility the first run stored, and the facility is still stored.
C15_Witness ==
    /\ runs = 2
    /\ pc = "DONE"
    /\ \E id \in IdsOf(store) :
          \A j \in 1..Len(upstream) : \A i \in 1..Len(upstream[j]) :
              ParseRaises(upstream[j][i]) \/ IdOf(upstream[j][i]) # id

\* The records of a page that parse_facility accepts
Accepted(page) == Len(page) - Cardinality(Rejects(page))

\* The records accepted in the pages at the first k offsets requested
AcceptedSoFar(k) ==
    LET total[j \in 0..k] ==
            IF j = 0 THEN 0
            ELSE total[j - 1] + Accepted(PageAt(upstream, fetches[j]))
    IN  total[k]

\* C16 (as claimed): whenever a page has just been committed, and when the
\* run is DONE, total_synced is the number of records of the committed
\* pages that parse_facility accepted and that were upserted.
C16_TotalIsUpserted ==
    (pc \in {"COMMITTED", "DONE"}) => total_synced = AcceptedSoFar(Len(fetches))

\* A CWPQtrsWithNC value that is a string of digits only
DigitContent(v) == v.t = "str" /\ IsDigit(v.s)

\* C17 (as claimed): a record that can be mapped when its CWPQtrsWithNC is
\* absent is also mapped when that value is anything but a string of digits
\* (a non-digit or empty string, null, a number), with
\* quarters_with_violations 0 and is_repeat_violator false.
C17_QuartersCoerced ==
    (/\ ppc = "parsed"
     /\ ~DigitContent(raw.CWPQtrsWithNC)
     /\ parse_facility([raw EXCEPT !.CWPQtrsWithNC = Absent], now) # <<>>) =>
        /\ parsed # <<>>
        /\ parsed[1].quarters_with_violations = 0
        /\ ~parsed[1].is_repeat_violator

\* What a step may do to the offsets: a request is made at the present
\* offset with no page in progress, and the offset moves, by BATCH_SIZE,
\* only off a page of at least BATCH_SIZE records that is committed with
\* its writes in the table.
C18_Step ==
    /\ (fetches' # fetches /\ runs' = runs) =>
          /\ fetches' = Append(fetches, offset)
          /\ pc = "FETCHING"
          /\ session = <<>>
    /\ (offset' # offset /\ runs' = runs) =>
          /\ pc = "COMMITTED"
          /\ Len(facilities) >= BATCH_SIZE
          /\ facilities = PageAt(upstream, offset)
          /\ PageVisible(store, facilities)
          /\ session = <<>>
          /\ offset' = offset + BATCH_SIZE

\* C18: the offsets a run has requested are 0, B, 2B, ... in this order,
\* each once; a request is made only when no page is in progress, the one
\* for the next offset only after the page of the offset before it was
\* mapped and committed; and the offset advances by B, off a committed
\* page of at least B records only.
C18_OffsetOrder ==
    /\ [](\A k \in 1..Len(fetches) : fetches[k] = (k - 1) * BATCH_SIZE)
    /\ [](pc \in {"FETCHING", "MAPPING", "COMMITTED"} =>
             offset = (Len(fetches) - (IF pc = "FETCHING" THEN 0 ELSE 1)) * BATCH_SIZE)
    /\ [](pc = "MAPPING" => facilities = PageAt(upstream, offset))
    /\ [][C18_Step]_vars

\* C18 witness: a run requests its third page, at offset 2B, the pages at
\* 0 and B being committed.
C18_Witness ==
    /\ pc = "MAPPING"
    /\ fetches = <<0, BATCH_SIZE, 2 * BATCH_SIZE>>
    /\ offset = 2 * BATCH_SIZE
    /\ total_synced = 2 * BATCH_SIZE
    /\ PageVisible(store, PageAt(upstream, BATCH_SIZE))

\* The upstream-derived columns of the rows of a table, by identifier
Snapshot(rows) == {[id |-> r.npdes_id, cols |-> UpstreamColumns(r)] : r \in rows}

\* The rows after the records of a page that can be mapped were upserted
AfterPage(rows, page) ==
    LET acc[i \in 0..Len(page)] ==
            IF i = 0 THEN rows
            ELSE IF ParseRaises(page[i]) THEN acc[i - 1]
            ELSE upsert_facility(acc[i - 1], FacilityDict(page[i], 0), 0, 0)
    IN  acc[Len(page)]

\* The rows after one uninterrupted run over the pages, from the first to
\* the one that ends the run
AfterRun(rows, pages) ==
    LET n == IF ExpectedFetches(pages) > Len(pages) THEN Len(pages)
             ELSE ExpectedFetches(pages)
        acc[j \in 0..n] ==
            IF j = 0 THEN rows ELSE AfterPage(acc[j - 1], pages[j])
    IN  acc[n]

\* C13: when a run is DONE, the runs before it on the same upstream data
\* having FAILED (or none having failed), the table has the identifiers and
\* upstream-derived columns that one uninterrupted run over that data
\* leaves on the table the first of these runs started on.
C13_Recovery ==
    pc = "DONE" => Snapshot(store) = Snapshot(AfterRun(run_base.rows, upstream))

\* C13 witness: a run that FAILED after it had committed a page was followed
\* by a run on the same data that is DONE, with two facilities stored.
C13_Witness ==
    /\ pc = "DONE"
    /\ run_base.recovering
    /\ run_base.rows # page_base
    /\ run_base.rows = {}
    /\ Len(fetches) >= 2
    /\ Cardinality(store) = 2

\* C11 (as claimed): when two runs that overlapped have ended, every
\* identifier that both of them wrote and committed has exactly one row,
\* and the row has, in every upstream-derived column, the value of the
\* record written in the page that was committed last.
C11_LastWriteWins ==
    (conc.overlap /\ \A r \in Runs : conc.run[r].pc \in {"DONE", "FAILED"}) =>
        \A d \in conc.won :
            (\A r \in Runs : <<r, d.npdes_id>> \in conc.wrote) =>
                /\ Cardinality({x \in store : x.npdes_id = d.npdes_id}) = 1
                /\ \A x \in store :
                      x.npdes_id = d.npdes_id =>
                          UpstreamColumns(x) = UpstreamColumns(d)

====
